---- MODULE Spec2Model ----
(***************************************************************************)
(* lorri: project identity (src/project.rs) and the info op.               *)
(*                                                                         *)
(* A path is the byte string a PathBuf holds (a tuple of 0..255).  The     *)
(* filesystem is the set of paths that are directories and the set of      *)
(* paths that exist as something else.  The identifier of a project is     *)
(* the lower-case hexadecimal MD5 digest of its root's bytes, computed     *)
(* here bit for bit.                                                       *)
(***************************************************************************)
EXTENDS Integers, Sequences, FiniteSets, TLC

(***************************************************************************)
(* 32-bit words as <<high half, low half>>, each half in 0..65535.         *)
(***************************************************************************)
Half == 65536

\* 2^n for n in 0..30
Pow2(n) ==
    <<1, 2, 4, 8, 16, 32, 64, 128, 256, 512, 1024, 2048, 4096, 8192, 16384,
      32768, 65536, 131072, 262144, 524288, 1048576, 2097152, 4194304,
      8388608, 16777216, 33554432, 67108864, 134217728, 268435456,
      536870912, 1073741824>>[n + 1]

WAdd(x, y) ==
    LET lo == x[2] + y[2]
        hi == x[1] + y[1] + (lo \div Half)
    IN  <<hi % Half, lo % Half>>

\* the bitwise operation with truth table t on two halves
BitOp(t, a, b) ==
    LET low[x \in Nat \X Nat \X (0..16)] ==
            IF x[3] = 0 THEN 0
            ELSE t[(x[1] % 2) + 1][(x[2] % 2) + 1]
                    + 2 * low[<<x[1] \div 2, x[2] \div 2, x[3] - 1>>]
    IN  low[<<a, b, 16>>]

WOp(t, x, y) == <<BitOp(t, x[1], y[1]), BitOp(t, x[2], y[2])>>

AndT == << <<0, 0>>, <<0, 1>> >>
OrT  == << <<0, 1>>, <<1, 1>> >>
XorT == << <<0, 1>>, <<1, 0>> >>

WAnd(x, y) == WOp(AndT, x, y)
WOr(x, y)  == WOp(OrT, x, y)
WXor(x, y) == WOp(XorT, x, y)
WNot(x)    == <<(Half - 1) - x[1], (Half - 1) - x[2]>>

\* rotate left by s, 0 <= s < 32
WRotl(x, s) ==
    LET y == IF s >= 16 THEN <<x[2], x[1]>> ELSE x
        r == s % 16
        up(h) == (h % Pow2(16 - r)) * Pow2(r)
        dn(h) == h \div Pow2(16 - r)
    IN  IF r = 0 THEN y
        ELSE <<up(y[1]) + dn(y[2]), up(y[2]) + dn(y[1])>>

(***************************************************************************)
(* md5::compute: RFC 1321.                                                 *)
(***************************************************************************)
MD5_S ==
    << 7, 12, 17, 22, 7, 12, 17, 22, 7, 12, 17, 22, 7, 12, 17, 22,
       5, 9, 14, 20, 5, 9, 14, 20, 5, 9, 14, 20, 5, 9, 14, 20,
       4, 11, 16, 23, 4, 11, 16, 23, 4, 11, 16, 23, 4, 11, 16, 23,
       6, 10, 15, 21, 6, 10, 15, 21, 6, 10, 15, 21, 6, 10, 15, 21 >>

MD5_K ==
    << <<55146, 42104>>, <<59591, 46934>>, <<9248, 28891>>, <<49597, 52974>>,
       <<62844, 4015>>, <<18311, 50730>>, <<43056, 17939>>, <<64838, 38145>>,
       <<27008, 39128>>, <<35652, 63407>>, <<65535, 23473>>, <<35164, 55230>>,
       <<27536, 4386>>, <<64920, 29075>>, <<42617, 17294>>, <<18868, 2081>>,
       <<63006, 9570>>, <<49216, 45888>>, <<9822, 23121>>, <<59830, 51114>>,
       <<54831, 4189>>, <<580, 5203>>, <<55457, 59009>>, <<59347, 64456>>,
       <<8673, 52710>>, <<49975, 2006>>, <<62677, 3463>>, <<17754, 5357>>,
       <<43491, 59653>>, <<64751, 41976>>, <<26479, 729>>, <<36138, 19594>>,
       <<65530, 14658>>, <<34673, 63105>>, <<28061, 24866>>, <<64997, 14348>>,
       <<42174, 59972>>, <<19422, 53161>>, <<63163, 19296>>, <<48831, 48240>>,
       <<10395, 32454>>, <<60065, 10234>>, <<54511, 12421>>, <<1160, 7429>>,
       <<55764, 53305>>, <<59099, 39397>>, <<8098, 31992>>, <<50348, 22117>>,
       <<62505, 8772>>, <<17194, 65431>>, <<43924, 9127>>, <<64659, 41017>>,
       <<25947, 22979>>, <<36620, 52370>>, <<65519, 62589>>, <<34180, 24017>>,
       <<28584, 32335>>, <<65068, 59104>>, <<41729, 17172>>, <<19976, 4513>>,
       <<63315, 32386>>, <<48442, 62005>>, <<10967, 53947>>, <<60294, 54161>> >>

MD5_Init == << <<26437, 8961>>, <<61389, 43913>>, <<39098, 56574>>, <<4146, 21622>> >>

\* the message, 0x80, zeros up to 56 mod 64, then the bit length as 8 bytes LE
MD5_Pad(msg) ==
    LET n    == Len(msg)
        z    == (119 - (n % 64)) % 64
        bits == n * 8
    IN  msg \o <<128>> \o [i \in 1..z |-> 0]
            \o [i \in 1..8 |-> IF i <= 4 THEN (bits \div Pow2(8 * (i - 1))) % 256 ELSE 0]

\* word g (0..15) of the chunk starting after byte off, little-endian
MD5_Word(m, off, g) ==
    LET b(i) == m[off + 4 * g + i]
    IN  <<b(4) * 256 + b(3), b(2) * 256 + b(1)>>

\* one of the 64 operations; st is <<A, B, C, D>>, i in 0..63
MD5_Step(st, m, off, i) ==
    LET A == st[1]
        B == st[2]
        C == st[3]
        D == st[4]
        F == CASE i < 16 -> WOr(WAnd(B, C), WAnd(WNot(B), D))
               [] i < 32 -> WOr(WAnd(D, B), WAnd(WNot(D), C))
               [] i < 48 -> WXor(B, WXor(C, D))
               [] OTHER  -> WXor(C, WOr(B, WNot(D)))
        g == CASE i < 16 -> i
               [] i < 32 -> (5 * i + 1) % 16
               [] i < 48 -> (3 * i + 5) % 16
               [] OTHER  -> (7 * i) % 16
        T == WAdd(WAdd(F, A), WAdd(MD5_K[i + 1], MD5_Word(m, off, g)))
    IN  <<D, WAdd(B, WRotl(T, MD5_S[i + 1])), B, C>>

\* the 64 operations on the chunk starting after byte off
\* (done as 8 runs of 8, which keeps the evaluation shallow)
MD5_Rounds(h, m, off) ==
    LET steps[a \in Seq(Seq(Nat)) \X (0..64) \X (0..64)] ==
            IF a[2] = a[3] THEN a[1]
            ELSE steps[<<MD5_Step(a[1], m, off, a[2]), a[2] + 1, a[3]>>]
        runs[b \in Seq(Seq(Nat)) \X (0..8)] ==
            IF b[2] = 8 THEN b[1]
            ELSE runs[<<steps[<<b[1], 8 * b[2], 8 * b[2] + 8>>], b[2] + 1>>]
    IN  runs[<<h, 0>>]

\* the state h with the result r of a chunk's operations added to it
MD5_Add(h, r) ==
    <<WAdd(h[1], r[1]), WAdd(h[2], r[2]), WAdd(h[3], r[3]), WAdd(h[4], r[4])>>

\* the state after every 64-byte chunk of the padded message m
MD5_Chunks(m) ==
    LET h[c \in 0..(Len(m) \div 64)] ==
            IF c = 0 THEN MD5_Init
            ELSE MD5_Add(h[c - 1], MD5_Rounds(h[c - 1], m, 64 * (c - 1)))
    IN  h[Len(m) \div 64]

\* the 16 digest bytes: A, B, C, D, each little-endian
MD5_Bytes(h) ==
    [k \in 1..16 |->
        LET w == h[((k - 1) \div 4) + 1]
        IN  CASE k % 4 = 1 -> w[2] % 256
              [] k % 4 = 2 -> w[2] \div 256
              [] k % 4 = 3 -> w[1] % 256
              [] OTHER     -> w[1] \div 256]

md5_compute(msg) == MD5_Bytes(MD5_Chunks(MD5_Pad(msg)))

\* format!("{:x}", digest): two lower-case hexadecimal digits per byte
HexDigit(d) == IF d < 10 THEN 48 + d ELSE 87 + d

LowerHex(digest) ==
    [k \in 1..(2 * Len(digest)) |->
        IF k % 2 = 1 THEN HexDigit(digest[(k + 1) \div 2] \div 16)
        ELSE HexDigit(digest[k \div 2] % 16)]

(***************************************************************************)
(* Option and Result values.                                               *)
(***************************************************************************)
None    == [tag |-> "None"]
Some(v) == [tag |-> "Some", val |-> v]
Ok(v)   == [tag |-> "Ok", val |-> v]
Err(e)  == [tag |-> "Err", err |-> e]

(***************************************************************************)
(* std::path on unix.  A component is a maximal run of bytes other than    *)
(* '/'; a "." run is no component unless it starts a relative path.        *)
(***************************************************************************)
Sep == <<47>>

is_sep_byte(b) == b = Sep[1]

has_root(p) == Len(p) > 0 /\ is_sep_byte(p[1])

\* where the run of non-separator bytes that ends at e starts
RunStart(p, e) ==
    LET back[b \in 0..e] ==
            IF b = 0 THEN 1
            ELSE IF is_sep_byte(p[b]) THEN b + 1 ELSE back[b - 1]
    IN  back[e]

\* the run b..e is a "." that is no component
IsSkippedCurDir(p, b, e) == e = b /\ p[b] = 46 /\ b # 1

\* where the last component within the first k bytes of p ends, 0 when
\* there is none (only the root, or nothing, is left)
LastComponentEnd(p, k) ==
    LET comp[j \in 0..k] ==
            IF j = 0 THEN 0
            ELSE IF is_sep_byte(p[j]) THEN comp[j - 1]
            ELSE IF IsSkippedCurDir(p, RunStart(p, j), j)
                 THEN comp[RunStart(p, j) - 1]
            ELSE j
    IN  comp[k]

\* what is left of p when its last component, which ends at e, is dropped
WithoutLast(p, e) ==
    LET before == LastComponentEnd(p, RunStart(p, e) - 1)
    IN  IF before = 0 THEN (IF has_root(p) THEN SubSeq(p, 1, 1) ELSE <<>>)
        ELSE SubSeq(p, 1, before)

ParentAt(p, e) == IF e = 0 THEN None ELSE Some(WithoutLast(p, e))

\* Path::parent: None when p ends in the root or is empty
parent(p) == ParentAt(p, LastComponentEnd(p, Len(p)))

\* Path::join, that is PathBuf::push on a copy
join(base, path) ==
    LET need_sep == Len(base) > 0 /\ ~is_sep_byte(base[Len(base)])
    IN  IF has_root(path) THEN path
        ELSE IF need_sep THEN base \o Sep \o path
        ELSE base \o path

(***************************************************************************)
(* The filesystem: dirs are the directories, files the paths that exist    *)
(* as something else, ro the directories in which nothing may be created.  *)
(***************************************************************************)
Root == Sep

\* what resolving p finds: "dir", "file", "missing" (ENOENT) or
\* "notdir" (ENOTDIR: a component of p is no directory)
RECURSIVE lookup(_, _)
RECURSIVE LookupUnder(_, _)
lookup(disk, p) ==
    IF p \in disk.dirs THEN "dir"
    ELSE IF p \in disk.files THEN "file"
    ELSE LookupUnder(disk, parent(p))

\* what resolving a path finds that is not there itself and has the parent up
LookupUnder(disk, up) ==
    IF up = None THEN "missing"
    ELSE IF lookup(disk, up.val) \in {"file", "notdir"} THEN "notdir"
    ELSE "missing"

\* variant of is_dir: a stat that never reports a directory
IsDirNever(disk, p) == FALSE

is_dir(disk, p) == lookup(disk, p) = "dir"

\* variant of MkdirAt: a file in the way is replaced by the directory
MkdirReplacingFile(disk, p, here, up) ==
    IF here = "dir"
    THEN [fs |-> disk, res |-> Err("AlreadyExists")]
    ELSE IF here = "notdir"
    THEN [fs |-> disk, res |-> Err("NotADirectory")]
    ELSE IF up = None
    THEN [fs |-> disk, res |-> Err("NotFound")]
    ELSE IF lookup(disk, up.val) # "dir"
    THEN [fs |-> disk, res |-> Err("NotFound")]
    ELSE IF up.val \in disk.ro
    THEN [fs |-> disk, res |-> Err("PermissionDenied")]
    ELSE [fs  |-> [disk EXCEPT !.dirs = @ \cup {p}, !.files = @ \ {p}],
          res |-> Ok("unit")]

\* mkdir(2) of p, which resolves to here and has the parent up
MkdirAt(disk, p, here, up) ==
    IF here \in {"dir", "file"}
    THEN [fs |-> disk, res |-> Err("AlreadyExists")]
    ELSE IF here = "notdir"
    THEN [fs |-> disk, res |-> Err("NotADirectory")]
    ELSE IF up = None
    THEN [fs |-> disk, res |-> Err("NotFound")]
    ELSE IF lookup(disk, up.val) # "dir"
    THEN [fs |-> disk, res |-> Err("NotFound")]
    ELSE IF up.val \in disk.ro
    THEN [fs |-> disk, res |-> Err("PermissionDenied")]
    ELSE [fs |-> [disk EXCEPT !.dirs = @ \cup {p}], res |-> Ok("unit")]

mkdir(disk, p) == MkdirAt(disk, p, lookup(disk, p), parent(p))

\* variant of tolerate: every mkdir error is passed on
TolerateNothing(disk, p, e) == Err(e)

\* create_dir_all's arm `Err(_) if path.is_dir() => Ok(())`, else the error
tolerate(disk, p, e) == IF is_dir(disk, p) THEN Ok("unit") ELSE Err(e)

\* create_dir_all after the parent was made with outcome above:
\* `match self.inner.mkdir(path)` the second time
CreateAfterParent(p, above, again) ==
    IF above.res.tag = "Err" THEN above
    ELSE IF again.res.tag = "Ok" THEN again
    ELSE [fs |-> above.fs, res |-> tolerate(above.fs, p, again.res.err)]

CreateUnder(p, above) == CreateAfterParent(p, above, mkdir(above.fs, p))

\* std::fs::create_dir_all (DirBuilder::create_dir_all)
RECURSIVE create_dir_all(_, _)
RECURSIVE CreateAfterFirst(_, _, _)
create_dir_all(disk, p) ==
    IF p = <<>> THEN [fs |-> disk, res |-> Ok("unit")]
    ELSE CreateAfterFirst(disk, p, mkdir(disk, p))

\* create_dir_all after the first mkdir(path) had the outcome first
CreateAfterFirst(disk, p, first) ==
    IF first.res.tag = "Ok" THEN first
    ELSE IF first.res.err # "NotFound"
    THEN [fs |-> disk, res |-> tolerate(disk, p, first.res.err)]
    ELSE IF parent(p) = None
    THEN [fs |-> disk, res |-> Err("Other")]
    ELSE CreateUnder(p, create_dir_all(disk, parent(p).val))

(***************************************************************************)
(* The inputs: configuration files, base directories, collaborators'       *)
(* outcomes.                                                               *)
(***************************************************************************)
\* "/a/shell.nix"
A_shell_nix == <<47, 97, 47, 115, 104, 101, 108, 108, 46, 110, 105, 120>>
\* "/a/default.nix"
A_default_nix == <<47, 97, 47, 100, 101, 102, 97, 117, 108, 116, 46, 110, 105, 120>>
\* "/home/u/proj/shell.nix"
Proj_shell_nix ==
    <<47, 104, 111, 109, 101, 47, 117, 47, 112, 114, 111, 106,
      47, 115, 104, 101, 108, 108, 46, 110, 105, 120>>
\* "/r"
R_dir == <<47, 114>>
\* "/tmp"
Tmp_dir == <<47, 116, 109, 112>>
\* "/tmp/lorri-roots"
Lorri_roots == <<47, 116, 109, 112, 47, 108, 111, 114, 114, 105, 45, 114, 111, 111, 116, 115>>
\* "gc_root"
GcRootName == <<103, 99, 95, 114, 111, 111, 116>>

\* "/.", which names the root as "/" does
RootDot == <<47, 46>>

\* "shell.nix", relative
Rel_shell_nix == <<115, 104, 101, 108, 108, 46, 110, 105, 120>>

\* the empty path
Empty == <<>>

\* the paths of configuration files: two names of the root, the empty
\* path, four files
NixFiles ==
    {Root, RootDot, Empty, A_shell_nix, A_default_nix, Proj_shell_nix,
     Rel_shell_nix}

\* the MD5 digest of every byte string the model hashes, computed once
Md5Memo ==
    [m \in NixFiles \cup {parent(f).val : f \in {g \in NixFiles : parent(g) # None}}
        |-> md5_compute(m)]

(***************************************************************************)
(* struct Project and its methods.                                         *)
(***************************************************************************)
Panic == [tag |-> "Panic"]

\* variant of load: the file itself is taken for the project's root
LoadFileAsRoot(nix_file, gc_root) ==
    Ok([project_root |-> nix_file, nix_file |-> nix_file, gc_root |-> gc_root])

\* variant of load: a path without parent is reported, not unwrapped
LoadChecked(nix_file, gc_root) ==
    IF parent(nix_file) = None THEN Err([tag |-> "ConfigNotFound"])
    ELSE Ok([project_root |-> parent(nix_file).val,
             nix_file     |-> nix_file,
             gc_root      |-> gc_root])

\* Project::load; nix_file.parent().unwrap() panics on None
load(nix_file, gc_root) ==
    LET project_root == parent(nix_file)
    IN  IF project_root.tag = "None" THEN Panic
        ELSE Ok([project_root |-> project_root.val,
                 nix_file     |-> nix_file,
                 gc_root      |-> gc_root])

\* Project::expression
expression(self) == self.nix_file

\* variant of hash: the digest of the configuration file's path
HashOfNixFile(self) == LowerHex(Md5Memo[self.nix_file])

\* Project::hash
hash(self) == LowerHex(Md5Memo[self.project_root])

\* the path gc_root_path() computes
ArtifactPath(self) == join(join(self.gc_root, hash(self)), GcRootName)

\* variant of CreatedPath: the outcome of create_dir_all is dropped
CreatedPathUnchecked(path, made) == [fs |-> made.fs, res |-> Ok(path)]

\* gc_root_path once create_dir_all(&path) returned made: `?`, then Ok(path)
CreatedPath(path, made) ==
    [fs  |-> made.fs,
     res |-> IF made.res.tag = "Err" THEN made.res ELSE Ok(path)]

\* variant of GcRootPathAt: the path is returned, nothing is created
GcRootPathNoCreate(disk, path) == [fs |-> disk, res |-> Ok(path)]

GcRootPathAt(disk, path) ==
    IF ~is_dir(disk, path) THEN CreatedPath(path, create_dir_all(disk, path))
    ELSE [fs |-> disk, res |-> Ok(path)]

\* Project::gc_root_path, as one step on the filesystem
gc_root_path(disk, self) == GcRootPathAt(disk, ArtifactPath(self))

\* variant of From: every failure of the locator becomes Io
FromAsIo(err) == [tag |-> "Io", io |-> err.tag]

\* impl From<FileLocationError> for ProjectLoadError
From(err) ==
    CASE err.tag = "NotFound" -> [tag |-> "ConfigNotFound"]
      [] err.tag = "Io"       -> [tag |-> "Io", io |-> err.io]

\* variant of from_cwd: Paths::initialize() is called first
FromCwdInitializeFirst(loc, init) ==
    IF init.tag = "Err"
    THEN [ret |-> Panic, calls |-> <<"Paths::initialize">>]
    ELSE IF loc.tag = "Err"
    THEN [ret |-> Err(From(loc.err)), calls |-> <<"Paths::initialize", "locate_file::in_cwd">>]
    ELSE [ret   |-> load(loc.val, init.val),
          calls |-> <<"Paths::initialize", "locate_file::in_cwd">>]

\* Project::from_cwd: the result and the collaborators it called, in order
from_cwd(loc, init) ==
    IF loc.tag = "Err"
    THEN [ret |-> Err(From(loc.err)), calls |-> <<"locate_file::in_cwd">>]
    ELSE IF init.tag = "Err"
    THEN [ret |-> Panic, calls |-> <<"locate_file::in_cwd", "Paths::initialize">>]
    ELSE [ret   |-> load(loc.val, init.val),
          calls |-> <<"locate_file::in_cwd", "Paths::initialize">>]

\* ops::info::main: the two lines that depend on the project
info_main(project) == <<project.project_root, expression(project)>>

\* a base directory inside the artifact directory of the project rooted
\* at /a under /r
Nested_dir == ArtifactPath(load(A_shell_nix, R_dir).val)

\* what load() may be called with: <<nix_file, gc_root>>
LoadArgs ==
    { <<Root, R_dir>>,
      <<RootDot, Lorri_roots>>,
      <<Empty, R_dir>>,
      <<Rel_shell_nix, Lorri_roots>>,
      <<A_shell_nix, R_dir>>,
      <<A_default_nix, Lorri_roots>>,
      <<Proj_shell_nix, Nested_dir>> }

\* what locate_file::in_cwd("shell.nix") may return
IoCauses == {"EACCES", "EIO"}

LocatorResults ==
    {Ok(Proj_shell_nix), Err([tag |-> "NotFound"])}
        \cup {Err([tag |-> "Io", io |-> c]) : c \in IoCauses}

\* what Paths::initialize() may return, reduced to gc_root_dir()
InitializeResults == {Ok(Lorri_roots), Err("cannot initialize")}

\* the filesystems an operation may start from
EmptyFs == [dirs |-> {Root}, files |-> {}, ro |-> {}]

BasesFs == [dirs |-> {Root, R_dir, Tmp_dir, Lorri_roots}, files |-> {}, ro |-> {}]

\* idA and idP are the identifiers of two projects
InitFsWith(idA, idP) ==
    { EmptyFs,
      BasesFs,
      \* the base directories are files
      [dirs |-> {Root, Tmp_dir}, files |-> {R_dir, Lorri_roots}, ro |-> {}],
      \* an identifier and a gc_root are files
      [dirs  |-> BasesFs.dirs \cup {join(Lorri_roots, idP)},
       files |-> {join(R_dir, idA), join(join(Lorri_roots, idP), GcRootName)},
       ro    |-> {}],
      \* nothing may be created in the base directories
      [BasesFs EXCEPT !.ro = {R_dir, Lorri_roots}],
      \* one artifact directory is there already
      [BasesFs EXCEPT !.dirs = @ \cup {join(R_dir, idA),
                                       join(join(R_dir, idA), GcRootName)}] }

InitFs ==
    InitFsWith(hash(load(A_shell_nix, R_dir).val),
               hash(load(Proj_shell_nix, R_dir).val))

(***************************************************************************)
(* State.                                                                  *)
(***************************************************************************)
MaxProjects == 2

NumCallers == 2

VARIABLES
    projects,   \* slot -> None or Some(Project): the Project values alive
    loaded,     \* slot -> None or Some(what its Project was built from)
    fs,         \* the filesystem
    last,       \* the operation that returned last
    panicked,   \* the thread has panicked
    callers     \* caller -> where it is in gc_root_path (concurrent use)

vars == <<projects, loaded, fs, last, panicked, callers>>

Slots == 1..MaxProjects

Callers == 1..NumCallers

NoOp ==
    [op |-> "none", id |-> 0, arg |-> <<>>, ret |-> None,
     calls |-> <<>>, out |-> <<>>, again |-> FALSE]

Idle == [pc |-> "idle", depth |-> 0, err |-> "", ret |-> None]

Init ==
    /\ projects = [i \in Slots |-> None]
    /\ loaded = [i \in Slots |-> None]
    /\ fs \in InitFs
    /\ last = NoOp
    /\ panicked = FALSE
    /\ callers = [c \in Callers |-> Idle]

\* slots are filled in order
Free(i) == projects[i] = None /\ (IF i = 1 THEN TRUE ELSE projects[i - 1] # None)

\* the caller gets r from load or from_cwd for slot i
Construct(i, r, from) ==
    IF r.tag = "Ok"
    THEN /\ projects' = [projects EXCEPT ![i] = Some(r.val)]
         /\ loaded' = [loaded EXCEPT ![i] = Some(from)]
         /\ panicked' = FALSE
    ELSE /\ panicked' = (r.tag = "Panic")
         /\ UNCHANGED <<projects, loaded>>

Load(i, p, b) ==
    /\ ~panicked
    /\ Free(i)
    /\ Construct(i, load(p, b), [nix_file |-> p, gc_root |-> b])
    /\ last' = [NoOp EXCEPT !.op = "load", !.id = i, !.arg = <<p, b>>,
                            !.ret = load(p, b)]
    /\ UNCHANGED <<fs, callers>>

FromCwd(i, loc, init) ==
    LET r == from_cwd(loc, init)
    IN  /\ ~panicked
        /\ Free(i)
        /\ Construct(i, r.ret,
                     [nix_file |-> IF loc.tag = "Ok" THEN loc.val ELSE <<>>,
                      gc_root  |-> IF init.tag = "Ok" THEN init.val ELSE <<>>])
        /\ last' = [NoOp EXCEPT !.op = "from_cwd", !.id = i,
                                !.arg = [loc |-> loc, init |-> init],
                                !.ret = r.ret, !.calls = r.calls]
        /\ UNCHANGED <<fs, callers>>

Expression(i) ==
    /\ ~panicked
    /\ projects[i] # None
    /\ last' = [NoOp EXCEPT !.op = "expression", !.id = i,
                            !.ret = expression(projects[i].val)]
    /\ UNCHANGED <<projects, loaded, fs, panicked, callers>>

Hash(i) ==
    /\ ~panicked
    /\ projects[i] # None
    /\ last' = [NoOp EXCEPT !.op = "hash", !.id = i, !.ret = hash(projects[i].val)]
    /\ UNCHANGED <<projects, loaded, fs, panicked, callers>>

GcRootPath(i) ==
    /\ ~panicked
    /\ projects[i] # None
    /\ LET r == gc_root_path(fs, projects[i].val)
       IN  /\ fs' = r.fs
           /\ last' = [NoOp EXCEPT
                         !.op = "gc_root_path", !.id = i, !.ret = r.res,
                         !.again = /\ last.op = "gc_root_path"
                                   /\ last.id = i
                                   /\ last.ret.tag = "Ok"]
    /\ UNCHANGED <<projects, loaded, panicked, callers>>

Info(i) ==
    /\ ~panicked
    /\ projects[i] # None
    /\ last' = [NoOp EXCEPT !.op = "info", !.id = i, !.ret = Ok("unit"),
                            !.out = info_main(projects[i].val)]
    /\ UNCHANGED <<projects, loaded, fs, panicked, callers>>

Next ==
    \/ \E i \in Slots, a \in LoadArgs : Load(i, a[1], a[2])
    \/ \E i \in Slots, loc \in LocatorResults, init \in InitializeResults :
            FromCwd(i, loc, init)
    \/ \E i \in Slots : Expression(i)
    \/ \E i \in Slots : Hash(i)
    \/ \E i \in Slots : GcRootPath(i)
    \/ \E i \in Slots : Info(i)

Spec == Init /\ [][Next]_vars

(***************************************************************************)
(* Concurrent use: every caller runs gc_root_path() on the Project in      *)
(* slot 1, one system call (stat or mkdir) per step.  A caller is at       *)
(* "idle" before `path.is_dir()`, at "first" before the first mkdir of     *)
(* create_dir_all for the path `depth` components above its own, at        *)
(* "first_failed" before the is_dir() that may tolerate its error, at      *)
(* "again" and "again_failed" likewise for the mkdir after the parent      *)
(* was made, and at "done" when gc_root_path has returned ret.             *)
(***************************************************************************)
ConcurrentProjects ==
    {load(A_shell_nix, R_dir).val, load(Proj_shell_nix, Lorri_roots).val}

InitConcurrent ==
    /\ \E p \in ConcurrentProjects :
          /\ projects = [i \in Slots |-> IF i = 1 THEN Some(p) ELSE None]
          /\ loaded = [i \in Slots |->
                         IF i = 1
                         THEN Some([nix_file |-> p.nix_file, gc_root |-> p.gc_root])
                         ELSE None]
    /\ fs \in InitFs
    /\ last = NoOp
    /\ panicked = FALSE
    /\ callers = [c \in Callers |-> Idle]

\* the path d components above p
Up(p, d) ==
    LET up[k \in 0..d] == IF k = 0 THEN p ELSE parent(up[k - 1]).val
    IN  up[d]

\* the path the callers compute
SharedPath == ArtifactPath(projects[1].val)

\* the path caller c's create_dir_all is working on
Target(c) == Up(SharedPath, callers[c].depth)

\* caller c after its create_dir_all at depth d returned res: an error goes
\* up through every `?`, Ok(()) resumes the caller one level down
Returned(c, d, res) ==
    IF res.tag = "Err"
    THEN [callers[c] EXCEPT !.pc = "done", !.depth = 0, !.ret = res]
    ELSE IF d = 0
    THEN [callers[c] EXCEPT !.pc = "done", !.ret = Ok(SharedPath)]
    ELSE [callers[c] EXCEPT !.pc = "again", !.depth = d - 1]

\* `if !path.is_dir()`
CheckIsDir(c) ==
    /\ callers[c].pc = "idle"
    /\ callers' = [callers EXCEPT ![c] =
                     IF is_dir(fs, SharedPath)
                     THEN [@ EXCEPT !.pc = "done", !.ret = Ok(SharedPath)]
                     ELSE [@ EXCEPT !.pc = "first", !.depth = 0]]
    /\ UNCHANGED <<projects, loaded, fs, last, panicked>>

\* what the first mkdir(path) of create_dir_all leads to
AfterFirst(c, p, r) ==
    IF r.res.tag = "Ok" THEN Returned(c, callers[c].depth, r.res)
    ELSE IF r.res.err # "NotFound"
    THEN [callers[c] EXCEPT !.pc = "first_failed", !.err = r.res.err]
    ELSE IF parent(p) = None
    THEN Returned(c, callers[c].depth, Err("Other"))
    ELSE [callers[c] EXCEPT !.depth = @ + 1]

MkdirFirst(c) ==
    /\ callers[c].pc = "first"
    /\ fs' = mkdir(fs, Target(c)).fs
    /\ callers' = [callers EXCEPT ![c] = AfterFirst(c, Target(c), mkdir(fs, Target(c)))]
    /\ UNCHANGED <<projects, loaded, last, panicked>>

\* `Err(_) if path.is_dir() => return Ok(())`, `Err(e) => return Err(e)`
TolerateFirst(c) ==
    /\ callers[c].pc = "first_failed"
    /\ callers' = [callers EXCEPT ![c] =
                     Returned(c, callers[c].depth,
                              tolerate(fs, Target(c), callers[c].err))]
    /\ UNCHANGED <<projects, loaded, fs, last, panicked>>

\* what the mkdir(path) after the parent was made leads to
AfterAgain(c, r) ==
    IF r.res.tag = "Ok" THEN Returned(c, callers[c].depth, r.res)
    ELSE [callers[c] EXCEPT !.pc = "again_failed", !.err = r.res.err]

MkdirAgain(c) ==
    /\ callers[c].pc = "again"
    /\ fs' = mkdir(fs, Target(c)).fs
    /\ callers' = [callers EXCEPT ![c] = AfterAgain(c, mkdir(fs, Target(c)))]
    /\ UNCHANGED <<projects, loaded, last, panicked>>

\* `Err(_) if path.is_dir() => Ok(())`, `Err(e) => Err(e)`
TolerateAgain(c) ==
    /\ callers[c].pc = "again_failed"
    /\ callers' = [callers EXCEPT ![c] =
                     Returned(c, callers[c].depth,
                              tolerate(fs, Target(c), callers[c].err))]
    /\ UNCHANGED <<projects, loaded, fs, last, panicked>>

NextConcurrent ==
    \/ \E c \in Callers : CheckIsDir(c)
    \/ \E c \in Callers : MkdirFirst(c)
    \/ \E c \in Callers : TolerateFirst(c)
    \/ \E c \in Callers : MkdirAgain(c)
    \/ \E c \in Callers : TolerateAgain(c)

SpecConcurrent == InitConcurrent /\ [][NextConcurrent]_vars

(***************************************************************************)
(* What the properties speak of.                                           *)
(***************************************************************************)
\* p and every ancestor of p (Path::ancestors)
RECURSIVE AncestorsFrom(_)
AncestorsFrom(up) ==
    IF up = None THEN {} ELSE {up.val} \cup AncestorsFrom(parent(up.val))

AncestorsOrSelf(p) == AncestorsFrom(Some(p))

\* no sequence of mkdir calls makes p a directory: p or a component of it
\* is there as something else, or its first missing component would have
\* to be created in a directory that allows no creation
CannotCreate(disk, p) ==
    \/ \E a \in AncestorsOrSelf(p) : a \in disk.files
    \/ \E a \in AncestorsOrSelf(p) \ disk.dirs :
          /\ parent(a) # None
          /\ parent(a).val \in disk.dirs
          /\ parent(a).val \in disk.ro

\* gc_root / hash / "gc_root", written out
ExpectedPath(self) == self.gc_root \o Sep \o hash(self) \o Sep \o GcRootName

\* p names the root: "/" followed by separators and "." components only
DenotesRoot(p) ==
    /\ has_root(p)
    /\ \A k \in 2..Len(p) :
          \/ is_sep_byte(p[k])
          \/ /\ p[k] = 46
             /\ is_sep_byte(p[k - 1])
             /\ (IF k = Len(p) THEN TRUE ELSE is_sep_byte(p[k + 1]))

\* the Project that load makes of what slot i was built from
Built(i) ==
    [nix_file     |-> loaded[i].val.nix_file,
     project_root |-> parent(loaded[i].val.nix_file).val,
     gc_root      |-> loaded[i].val.gc_root]

\* the live projects other than i that differ from it in identifier or
\* in base directory
Others(i) ==
    {j \in Slots :
        /\ projects[j] # None
        /\ \/ hash(projects[j].val) # hash(projects[i].val)
           \/ projects[j].val.gc_root # projects[i].val.gc_root}

(***************************************************************************)
(* Properties.                                                             *)
(***************************************************************************)
\* C1: load(p, b) of a path p with parent d returns Ok with nix_file = p,
\* project_root = d and gc_root = b; every live Project still has the
\* fields it was built with after any later operations, and expression()
\* returns p.
C1_LoadFields ==
    /\ \A i \in Slots :
          projects[i] # None
             => /\ loaded[i] # None
                /\ parent(loaded[i].val.nix_file) # None
                /\ projects[i].val = Built(i)
    /\ (last.op = "load" /\ parent(last.arg[1]) # None)
          => last.ret = Ok([nix_file     |-> last.arg[1],
                            project_root |-> parent(last.arg[1]).val,
                            gc_root      |-> last.arg[2]])
    /\ last.op = "expression" => last.ret = loaded[last.id].val.nix_file

\* expression() was called on the second project after gc_root_path()
\* had created directories
C1_Witness ==
    /\ last.op = "expression"
    /\ last.id = 2
    /\ fs \notin InitFs

\* C2: when gc_root_path() returns Ok(path), path is
\* gc_root / hash / "gc_root", and path and all its ancestors are
\* directories at that moment.
C2_PathCreated ==
    (last.op = "gc_root_path" /\ last.ret.tag = "Ok")
        => /\ last.ret.val = ExpectedPath(projects[last.id].val)
           /\ AncestorsOrSelf(last.ret.val) \subseteq fs.dirs

\* a first call returned Ok where nothing but the root had existed:
\* the directories are exactly the path and its ancestors
C2_Witness ==
    /\ last.op = "gc_root_path"
    /\ last.ret.tag = "Ok"
    /\ ~last.again
    /\ fs.dirs = AncestorsOrSelf(last.ret.val)
    /\ Cardinality(fs.dirs) >= 4

\* C3: a gc_root_path() call that directly follows a successful one for
\* the same project returns the same Ok(path) and leaves the filesystem
\* as it is.
C3_Idempotent ==
    [][(/\ last.op = "gc_root_path"
        /\ last.ret.tag = "Ok"
        /\ last'.op = "gc_root_path"
        /\ last'.id = last.id)
          => (last'.ret = last.ret /\ fs' = fs)]_vars

\* the second of two successive calls has returned
C3_Witness ==
    /\ last.op = "gc_root_path"
    /\ last.again
    /\ last.ret.tag = "Ok"

\* C4: of the callers that run gc_root_path() concurrently for one
\* project, each that has returned has Ok with the one path, and the
\* directory is there, unless the directory cannot be created at all: no
\* call fails because of what another caller did.
C4_ConcurrentCallers ==
    \A c \in Callers :
        callers[c].pc = "done"
            => IF CannotCreate(fs, ExpectedPath(projects[1].val))
               THEN callers[c].ret.tag = "Err"
               ELSE /\ callers[c].ret = Ok(ExpectedPath(projects[1].val))
                    /\ is_dir(fs, ExpectedPath(projects[1].val))

\* all callers have returned Ok, one of them after a mkdir of its own
\* found the directory made by another
C4_Witness ==
    /\ \A c \in Callers : callers[c].pc = "done" /\ callers[c].ret.tag = "Ok"
    /\ \E c \in Callers : callers[c].err = "AlreadyExists"

\* C5: from_cwd() returns ConfigNotFound exactly when the locator reports
\* NotFound, and Io(cause) exactly when the locator reports Io(cause).
C5_ErrorMapping ==
    last.op = "from_cwd"
        => /\ (last.ret = Err([tag |-> "ConfigNotFound"]))
                <=> (last.arg.loc = Err([tag |-> "NotFound"]))
           /\ \A c \in IoCauses :
                (last.ret = Err([tag |-> "Io", io |-> c]))
                    <=> (last.arg.loc = Err([tag |-> "Io", io |-> c]))

\* from_cwd() has returned Io with the locator's cause
C5_Witness ==
    /\ last.op = "from_cwd"
    /\ last.arg.loc = Err([tag |-> "Io", io |-> "EIO"])
    /\ last.ret = Err([tag |-> "Io", io |-> "EIO"])

\* C6: projects with the same project_root have the same identifier,
\* whatever their nix_file and gc_root, so the artifact path of each is
\* its own gc_root followed by the other's identifier and "gc_root"; and
\* what hash() returns is the identifier of every project with that root.
C6_HashOfRootAlone ==
    \A i, j \in Slots :
        (/\ projects[i] # None
         /\ projects[j] # None
         /\ projects[i].val.project_root = projects[j].val.project_root)
            => /\ hash(projects[i].val) = hash(projects[j].val)
               /\ ArtifactPath(projects[i].val)
                     = projects[i].val.gc_root \o Sep \o hash(projects[j].val)
                          \o Sep \o GcRootName
               /\ (last.op = "hash" /\ last.id = i)
                     => last.ret = hash(projects[j].val)

\* hash() was called on one of two projects that share the root and
\* differ in nix_file and in gc_root
C6_Witness ==
    /\ last.op = "hash"
    /\ \E i, j \in Slots :
          /\ projects[i] # None
          /\ projects[j] # None
          /\ projects[i].val.project_root = projects[j].val.project_root
          /\ projects[i].val.nix_file # projects[j].val.nix_file
          /\ projects[i].val.gc_root # projects[j].val.gc_root

C8_ErrWhenNotCreatable ==
    last.op = "gc_root_path"
        => /\ CannotCreate(fs, ExpectedPath(projects[last.id].val))
                => last.ret.tag = "Err"
           /\ last.ret.tag = "Ok" => last.ret.val \in fs.dirs

\* gc_root_path() has returned an error where a component of the path is
\* there as a non-directory
C8_Witness ==
    /\ last.op = "gc_root_path"
    /\ last.ret.tag = "Err"
    /\ \E a \in AncestorsOrSelf(ExpectedPath(projects[last.id].val)) :
          a \in fs.files

\* files and permissions stay, no directory goes away
FsOnlyGrows ==
    /\ fs.dirs \subseteq fs'.dirs
    /\ fs'.files = fs.files
    /\ fs'.ro = fs.ro

\* a step that changes the filesystem is a gc_root_path(), and what it
\* adds is its project's path or an ancestor of that
OnlyGcRootPathWrites ==
    fs' # fs
        => /\ last'.op = "gc_root_path"
           /\ (fs'.dirs \ fs.dirs)
                 \subseteq AncestorsOrSelf(ArtifactPath(projects[last'.id].val))

\* gc_root_path(), where it changes the filesystem at all, neither makes
\* nor removes the artifact directory of another project
OtherUnchanged ==
    (fs' # fs /\ last'.op = "gc_root_path")
        => \A j \in Others(last'.id) :
              (ArtifactPath(projects[j].val) \in fs.dirs)
                 <=> (ArtifactPath(projects[j].val) \in fs'.dirs)

\* the same, but for another project's artifact directory that is an
\* ancestor of the caller's own path
OtherUnchangedUnlessAncestor ==
    (fs' # fs /\ last'.op = "gc_root_path")
        => \A j \in Others(last'.id) :
              ArtifactPath(projects[j].val)
                    \notin AncestorsOrSelf(ArtifactPath(projects[last'.id].val))
                 => ((ArtifactPath(projects[j].val) \in fs.dirs)
                        <=> (ArtifactPath(projects[j].val) \in fs'.dirs))

\* C9 as stated: only gc_root_path() changes the filesystem, it only adds
\* its project's path and ancestors, nothing is removed, and the artifact
\* directory of a project with another identifier or base is unchanged.
C9_FrameAsStated ==
    [][FsOnlyGrows /\ OnlyGcRootPathWrites /\ OtherUnchanged]_vars

\* C9: only gc_root_path() changes the filesystem, it only adds its
\* project's path and ancestors, nothing is removed, and the artifact
\* directory of a project with another identifier or base is unchanged
\* unless it is an ancestor of the caller's own path.
C9_Frame ==
    [][FsOnlyGrows /\ OnlyGcRootPathWrites /\ OtherUnchangedUnlessAncestor]_vars

\* gc_root_path() has returned Ok for a project whose base directory lies
\* inside the artifact directory of another live project
C9_Witness ==
    /\ last.op = "gc_root_path"
    /\ last.ret.tag = "Ok"
    /\ ~last.again
    /\ \E j \in Others(last.id) :
          /\ ArtifactPath(projects[j].val)
                \in AncestorsOrSelf(ArtifactPath(projects[last.id].val))
          /\ ArtifactPath(projects[j].val) \in fs.dirs

\* C10: from_cwd() calls the locator first; when the locator fails the
\* initializer is not called and the mapped error is returned, so the
\* panic on a failed initializer happens only after a file was found, and
\* a missing file gives ConfigNotFound even if the initializer would fail.
C10_LocatorBeforeInitializer ==
    last.op = "from_cwd"
        => /\ last.calls[1] = "locate_file::in_cwd"
           /\ last.arg.loc.tag = "Err"
                 => /\ last.calls = <<"locate_file::in_cwd">>
                    /\ last.ret = Err(From(last.arg.loc.err))
           /\ last.ret = Panic => last.arg.loc.tag = "Ok"
           /\ last.arg.loc = Err([tag |-> "NotFound"])
                 => last.ret = Err([tag |-> "ConfigNotFound"])

\* from_cwd() has returned ConfigNotFound where the initializer would
\* have failed
C10_Witness ==
    /\ last.op = "from_cwd"
    /\ last.arg.loc = Err([tag |-> "NotFound"])
    /\ last.arg.init.tag = "Err"
    /\ last.ret = Err([tag |-> "ConfigNotFound"])

====
